---- MODULE Spec2Model ----
(***************************************************************************)
(* Model of the in-memory user store (InMemoryUserRepository over a        *)
(* DashMap), and of the service layer (UserServiceImpl) that wraps it and  *)
(* keeps the operation statistics.                                         *)
(*                                                                         *)
(* Strings are sequences of one-character strings so that to_lowercase     *)
(* and contains are computed, not assumed.  Option<T> is a sequence of     *)
(* length 0 (None) or 1 (Some).  The DashMap is a sequence of User records *)
(* with pairwise distinct ids, in the map's iteration order.               *)
(***************************************************************************)
EXTENDS Integers, Sequences, FiniteSets, TLC

\* ---------------------------------------------------------------- bounds
\* Number of concurrently running callers (request handlers).
MaxTasks == 2
\* Number of ids Uuid::new_v4 hands out in one run (so: number of inserts).
MaxIds == 2
\* Largest value of the wall clock.
MaxClock == 1
\* Number of service calls started in one run (caps the statistics).
MaxOps == 3
\* Largest page index and page size a list call is given.
MaxPage == 3
MaxPageSize == 2
\* Number of deliveries of the topic in one run.
MaxMsgs == 2

\* ---------------------------------------------------------------- values
Tasks == 1..MaxTasks

None == <<>>
Some(v) == <<v>>
IsSome(o) == Len(o) = 1
Unwrap(o) == o[1]

Chars == {"a", "A", "b", "B", "l", "L", "@", "z"}

\* char::to_lowercase on the alphabet of the model
LowerChar(c) ==
    CASE c = "A" -> "a"
      [] c = "B" -> "b"
      [] c = "L" -> "l"
      [] OTHER -> c

\* str::to_lowercase
to_lowercase(s) == [i \in 1..Len(s) |-> LowerChar(s[i])]

\* str::contains(&str)
contains(s, q) ==
    \E i \in 1..(Len(s) + 1) :
        /\ i + Len(q) - 1 <= Len(s)
        /\ SubSeq(s, i, i + Len(q) - 1) = q

\* Inputs of the requests.
Names == {<<"A", "l">>, <<"B">>}
Emails == {<<"a", "@">>, <<"A", "@">>, <<"b", "@">>}
Ages == {1, 2}
SearchTerms == {<<"A">>, <<"a", "l">>, <<"B", "@">>, <<"z">>}

VARIABLES
    db,       \* Database: the DashMap<String, User>, in iteration order
    stats,    \* UserServiceImpl.stats: the ServiceStats aggregate
    now,      \* the last reading of chrono::Utc::now()
    nextId,   \* the next id Uuid::new_v4 returns
    started,  \* number of service calls started so far
    task,     \* per caller: the call it runs and where it is in it
    listed,   \* the answer of a find_all on the map as it is, with its arguments
    pager,    \* a caller that reads the pages 1, 2, ... one list call each
    kafka_producer,  \* UserServiceImpl.kafka_producer is Some(..)
    stream,   \* the deliveries of the topic "user-jobs", in the order of the stream
    loop,     \* the consumer loop of the worker process (start_listening)
    jobs,     \* the tasks the consumer loop has spawned, in the order of the spawns
    wdb,      \* the worker process's own Database
    wstats,   \* the worker process's own ServiceStats aggregate
    files     \* the files of the worker's directory: path -> None or Some(rows)

\* The server process's service (with the producer it holds) and its callers.
svars == <<db, stats, task, listed, pager, started, kafka_producer>>

\* What lies outside the server process: the topic, the worker process and
\* the worker's files.
wvars == <<stream, loop, jobs, wdb, wstats, files>>

vars == <<db, stats, now, nextId, started, task, listed, pager, kafka_producer, wvars>>

\* ---------------------------------------------------------------- the map
Keys(m) == {m[i].id : i \in 1..Len(m)}

\* DashMap::get(id)
Get(m, id) ==
    IF \E i \in 1..Len(m) : m[i].id = id
    THEN Some(m[CHOOSE i \in 1..Len(m) : m[i].id = id])
    ELSE None

\* DashMap::insert(k, v) of a new key.  The iteration order of a hash map after
\* an insert (that may grow and rehash a shard) is not specified: every order
\* of the old entries and the new one is possible.
Inserted(m, u) ==
    LET E == {m[i] : i \in 1..Len(m)} \cup {u}
        n == Len(m) + 1
    IN  {s \in [1..n -> E] : \A i, j \in 1..n : s[i] = s[j] => i = j}

\* DashMap::remove(k): absent keys are left alone
Remove(m, k) == SelectSeq(m, LAMBDA u : u.id # k)

\* Iterator::find_map over db.iter() with the closure `value().email == email`:
\* the index of the first such entry in iteration order
FirstIndex(m, email) ==
    IF \E i \in 1..Len(m) : m[i].email = email
    THEN Some(CHOOSE i \in 1..Len(m) :
                /\ m[i].email = email
                /\ \A j \in 1..(i - 1) : m[j].email # email)
    ELSE None

\* ---------------------------------------------------------------- repository
\* find_by_email_exists: compares the stored email with the argument as given
find_by_email_exists(m, email) == \E i \in 1..Len(m) : m[i].email = email

\* find_by_email: the first entry whose stored email equals the argument
find_by_email(m, email) ==
    LET f == FirstIndex(m, email)
    IN  IF IsSome(f) THEN Some(m[Unwrap(f)]) ELSE None

\* find_by_id
find_by_id(m, id) == Get(m, id)

\* The User that create_user builds from the request
NewUser(id, name, email, age, c, u) ==
    [id |-> id, name |-> name, email |-> to_lowercase(email), age |-> age,
     created_at |-> c, updated_at |-> u]

\* As ApplyUpdate, but an absent age is written as the default (unwrap_or_default).
ApplyUpdate_default_age(user, name, email, age, ts) ==
    [user EXCEPT
        !.name = IF IsSome(name) THEN Unwrap(name) ELSE @,
        !.email = IF IsSome(email) THEN to_lowercase(Unwrap(email)) ELSE @,
        !.age = IF IsSome(age) THEN Unwrap(age) ELSE 0,
        !.updated_at = ts]

\* The body of update_user's get_mut block, applied to the entry
ApplyUpdate(user, name, email, age, ts) ==
    [user EXCEPT
        !.name = IF IsSome(name) THEN Unwrap(name) ELSE @,
        !.email = IF IsSome(email) THEN to_lowercase(Unwrap(email)) ELSE @,
        !.age = IF IsSome(age) THEN Unwrap(age) ELSE @,
        !.updated_at = ts]

\* The map after get_mut(id) and the assignments to the entry (in place)
Updated(m, id, name, email, age, ts) ==
    [i \in 1..Len(m) |->
        IF m[i].id = id THEN ApplyUpdate(m[i], name, email, age, ts) ELSE m[i]]

\* delete_user's lookup: the key of the first entry with that email
DeleteKey(m, email) ==
    LET f == FirstIndex(m, email)
    IN  IF IsSome(f) THEN Some(m[Unwrap(f)].id) ELSE None

\* As Matches, but the search term is not lowercased.
Matches_term_as_given(user, search) ==
    IF IsSome(search)
    THEN \/ contains(to_lowercase(user.name), Unwrap(search))
         \/ contains(to_lowercase(user.email), Unwrap(search))
    ELSE TRUE

\* The filter closure of find_all
Matches(user, search) ==
    IF IsSome(search)
    THEN LET q == to_lowercase(Unwrap(search))
         IN  \/ contains(to_lowercase(user.name), q)
             \/ contains(to_lowercase(user.email), q)
    ELSE TRUE

Min(a, b) == IF a <= b THEN a ELSE b

\* As find_all, but the page index is taken as 0-based.
find_all_zero_based(m, page, page_size, search) ==
    LET users == SelectSeq(m, LAMBDA u : Matches(u, search))
        total == Len(users)
        start == page * page_size
        end   == Min(start + page_size, Len(users))
    IN  IF start < 0 \/ start > end
        THEN [res |-> "panic", users |-> <<>>, total |-> 0]
        ELSE [res |-> "Ok", users |-> SubSeq(users, start + 1, end), total |-> total]

\* find_all, for page >= 0 and page_size >= 0 small enough for i32.  A negative
\* (page - 1) * page_size becomes a usize above every length: the slice
\* users[start..end] then panics, as it does whenever start > end.
find_all(m, page, page_size, search) ==
    LET users == SelectSeq(m, LAMBDA u : Matches(u, search))
        total == Len(users)
        start == (page - 1) * page_size
        end   == Min(start + page_size, Len(users))
    IN  IF start < 0 \/ start > end
        THEN [res |-> "panic", users |-> <<>>, total |-> 0]
        ELSE [res |-> "Ok", users |-> SubSeq(users, start + 1, end), total |-> total]

\* ---------------------------------------------------------------- csv
\* A file is a sequence of rows, a row a sequence of fields, a field a string:
\* what csv::Writer writes and csv::Reader reads back, field by field.

\* char::to_uppercase on the alphabet of the model
UpperChar(c) ==
    CASE c = "a" -> "A"
      [] c = "b" -> "B"
      [] c = "l" -> "L"
      [] OTHER -> c

\* str::to_uppercase
to_uppercase(s) == [i \in 1..Len(s) |-> UpperChar(s[i])]

\* str::trim: without the white space at both ends
trim(s) ==
    LET I == {i \in 1..Len(s) : s[i] # " "}
    IN  IF I = {} THEN <<>>
        ELSE SubSeq(s, CHOOSE i \in I : \A j \in I : i <= j,
                       CHOOSE i \in I : \A j \in I : i >= j)

Digits == <<"0", "1", "2", "3", "4", "5", "6", "7", "8", "9">>

IsDigit(c) == \E d \in 1..10 : Digits[d] = c

DigitValue(c) == (CHOOSE d \in 1..10 : Digits[d] = c) - 1

\* Display of an unsigned number: its decimal digits
RECURSIVE ToDecimal(_)
ToDecimal(n) ==
    IF n < 10 THEN <<Digits[n + 1]>>
    ELSE ToDecimal(n \div 10) \o <<Digits[(n % 10) + 1]>>

RECURSIVE DecimalValue(_)
DecimalValue(s) ==
    IF s = <<>> THEN 0
    ELSE 10 * DecimalValue(SubSeq(s, 1, Len(s) - 1)) + DigitValue(s[Len(s)])

\* str::parse::<u8>: an optional '+', then one digit or more, at most 255
ParseU8(s) ==
    LET d == IF s # <<>> /\ s[1] = "+" THEN Tail(s) ELSE s
    IN  IF /\ d # <<>>
           /\ \A i \in 1..Len(d) : IsDigit(d[i])
           /\ Len(d) <= 3
           /\ DecimalValue(d) <= 255
        THEN Some(DecimalValue(d))
        ELSE None

\* The header csv::Writer derives from the fields of User
UserHeaders ==
    << <<"i", "d">>, <<"n", "a", "m", "e">>, <<"e", "m", "a", "i", "l">>,
       <<"a", "g", "e">>,
       <<"c", "r", "e", "a", "t", "e", "d", "_", "a", "t">>,
       <<"u", "p", "d", "a", "t", "e", "d", "_", "a", "t">> >>

\* wtr.serialize(user): one row, the fields in the order of the struct
UserRow(u) ==
    <<ToDecimal(u.id), u.name, u.email, ToDecimal(u.age),
      ToDecimal(u.created_at), ToDecimal(u.updated_at)>>

\* export_to_csv, lines 197-209: the buffer the Writer fills.  With
\* has_headers(true) the Writer writes the header row before the first record
\* it serializes: when there is no record it writes nothing at all.
Encode(users) ==
    IF users = <<>> THEN <<>>
    ELSE <<UserHeaders>> \o [i \in 1..Len(users) |-> UserRow(users[i])]

\* import_from_csv, lines 241-248
expected_headers ==
    << <<"i", "d">>, <<"n", "a", "m", "e">>, <<"e", "m", "a", "i", "l">>,
       <<"a", "g", "e">>,
       <<"c", "r", "e", "a", "t", "e", "d", "_", "a", "t">>,
       <<"u", "p", "d", "a", "t", "e", "d", "_", "a", "t">> >>

\* rdr.headers(): the first row of the file, the empty record when it has none
actual_headers(rows) == IF rows = <<>> THEN <<>> ELSE rows[1]

\* import_from_csv, lines 263-299: one record of rdr.into_records().  The
\* Reader is not flexible: a record whose number of fields differs from the
\* header's is an error of the Reader.
DecodeRow(row, nfields) ==
    IF Len(row) # nfields THEN [res |-> "CsvError", req |-> None]
    ELSE IF Len(row) < 3 THEN [res |-> "CsvError", req |-> None]
    ELSE LET name == trim(row[2])
             email == trim(row[3])
             age_str == trim(row[4])
         IN  IF name = <<>> \/ email = <<>> \/ age_str = <<>>
             THEN [res |-> "ValidationError", req |-> None]
             ELSE IF ~contains(email, <<"@">>)
             THEN [res |-> "ValidationError", req |-> None]
             ELSE IF ParseU8(age_str) = None
             THEN [res |-> "ValidationError", req |-> None]
             ELSE [res |-> "Ok",
                   req |-> Some([name |-> name, email |-> to_lowercase(email),
                                 age |-> Unwrap(ParseU8(age_str))])]

\* As Decode, but a record that is not valid is skipped.
Decode_skips_bad_rows(rows) ==
    IF actual_headers(rows) # expected_headers
    THEN [res |-> "CsvError", requests |-> <<>>]
    ELSE LET r(i) == DecodeRow(rows[i + 1], Len(expected_headers))
             good == SelectSeq([i \in 1..(Len(rows) - 1) |-> r(i)],
                               LAMBDA x : x.res = "Ok")
         IN  [res |-> "Ok", requests |-> [i \in 1..Len(good) |-> Unwrap(good[i].req)]]

\* import_from_csv, lines 238-300: the header check, then every record in
\* turn; the first error ends the decoding
Decode(rows) ==
    IF actual_headers(rows) # expected_headers
    THEN [res |-> "CsvError", requests |-> <<>>]
    ELSE LET n == Len(rows) - 1
             r(i) == DecodeRow(rows[i + 1], Len(expected_headers))
             bad == {i \in 1..n : r(i).res # "Ok"}
         IN  IF bad # {}
             THEN [res |-> r(CHOOSE i \in bad : \A k \in bad : i <= k).res,
                   requests |-> <<>>]
             ELSE [res |-> "Ok", requests |-> [i \in 1..n |-> Unwrap(r(i).req)]]

\* ---------------------------------------------------------------- service
NoStats ==
    [total_operations |-> 0, create_count |-> 0, read_count |-> 0,
     update_count |-> 0, delete_count |-> 0]

\* As increment_stat, but the closure is not run: total_operations only.
increment_stat_total_only(s, op) ==
    [s EXCEPT !.total_operations = @ + 1]

\* As increment_stat, but the closure's counter only: total_operations is
\* left as it was.
increment_stat_own_counter_only(s, op) ==
    [s EXCEPT
        !.create_count = IF op = "create" THEN @ + 1 ELSE @,
        !.read_count   = IF op = "find_by_id" THEN @ + 1 ELSE @,
        !.update_count = IF op = "update" THEN @ + 1 ELSE @,
        !.delete_count = IF op = "delete" THEN @ + 1 ELSE @]

\* increment_stat with the closure each service call passes
increment_stat(s, op) ==
    [s EXCEPT
        !.total_operations = @ + 1,
        !.create_count = IF op = "create" THEN @ + 1 ELSE @,
        !.read_count   = IF op = "find_by_id" THEN @ + 1 ELSE @,
        !.update_count = IF op = "update" THEN @ + 1 ELSE @,
        !.delete_count = IF op = "delete" THEN @ + 1 ELSE @]

\* A caller that runs no call.  A caller's record keeps of a call's arguments
\* what the rest of the call still reads, and the email of a create or delete.
Idle ==
    [op |-> "idle", pc |-> "idle", name |-> None, email |-> None, age |-> None,
     id |-> 0, key |-> None, res |-> "none", ret |-> "none", out |-> None]

NoList == [page |-> 0, page_size |-> 0, search |-> None, res |-> "none",
           users |-> <<>>, total |-> 0]

\* A caller that is not reading pages.  While it does: the page size and the
\* search term of its list calls, the next page, the pages read so far, the
\* total and the result of the last call.
NoPager == [on |-> FALSE, page_size |-> 0, search |-> None, next |-> 0,
            acc |-> <<>>, total |-> 0, res |-> "none"]

\* The paths of the jobs: the ones the API handlers enqueue.
Paths == {"data.csv", "users_export.csv"}

\* The consumer loop waits in stream.next(); it has consumed no delivery.
Listening == [pc |-> "listening", offset |-> 0]

Init ==
    /\ db = <<>>
    /\ stats = NoStats
    /\ now = 0
    /\ nextId = 1
    /\ started = 0
    /\ task = [t \in Tasks |-> Idle]
    /\ listed = NoList
    /\ pager = NoPager
    /\ kafka_producer = TRUE
    /\ stream = <<>>
    /\ loop = Listening
    /\ jobs = <<>>
    /\ wdb = <<>>
    /\ wstats = NoStats
    /\ files = [p \in Paths |-> None]

\* UserServiceImpl::new takes the producer as an Option: a service built
\* with None, everything else as main builds it.
InitNew ==
    /\ db = <<>>
    /\ stats = NoStats
    /\ now = 0
    /\ nextId = 1
    /\ started = 0
    /\ task = [t \in Tasks |-> Idle]
    /\ listed = NoList
    /\ pager = NoPager
    /\ kafka_producer \in BOOLEAN
    /\ stream = <<>>
    /\ loop = Listening
    /\ jobs = <<>>
    /\ wdb = <<>>
    /\ wstats = NoStats
    /\ files = [p \in Paths |-> None]

\* Calls that are under way and will still draw an id.
PendingCreates == Cardinality({t \in Tasks : task[t].op = "create" /\ task[t].pc = "insert"})

\* A caller starts a call when it runs none: at first, or once its last call
\* has returned (pc "done" keeps what that call returned).
Free(t) == task[t].pc \in {"idle", "done"}

\* listed and pager hold answers about the map as it is: a mutation of the
\* map drops them (the answer of a list call says nothing about a later map).
Mutated ==
    /\ listed' = NoList
    /\ pager' = NoPager

\* chrono::Utc::now(): what a reading of the clock may return when the last
\* reading returned c (time passes between two readings, or does not).
Readings(c) == {c, Min(c + 1, MaxClock)}

\* ---- UserServiceImpl::create_user -> InMemoryUserRepository::create_user
\* The call, and create_user line 58: the existence check
CreateCheck(t, name, email, age) ==
    /\ Free(t)
    /\ started < MaxOps
    /\ nextId + PendingCreates <= MaxIds
    /\ started' = started + 1
    /\ LET call == [Idle EXCEPT !.op = "create", !.name = Some(name),
                                !.email = Some(email), !.age = Some(age)]
       IN  task' = [task EXCEPT ![t] =
                IF find_by_email_exists(db, email)
                THEN [call EXCEPT !.pc = "done", !.res = "ValidationError", !.ret = "Err"]
                ELSE [call EXCEPT !.pc = "insert"]]
    /\ UNCHANGED <<db, stats, now, nextId, listed, pager, kafka_producer, wvars>>

\* create_user, lines 63-72: build the User (two readings of the clock) and insert
CreateInsert(t) ==
    /\ task[t].op = "create" /\ task[t].pc = "insert"
    /\ \E c \in Readings(now) : \E u \in Readings(c) :
        LET user == NewUser(nextId, Unwrap(task[t].name), Unwrap(task[t].email),
                            Unwrap(task[t].age), c, u)
        IN  /\ db' \in Inserted(db, user)
            /\ now' = u
            /\ task' = [task EXCEPT ![t] = [@ EXCEPT !.pc = "stat", !.res = "Ok",
                                    !.name = None, !.age = None, !.out = Some(user)]]
    /\ nextId' = nextId + 1
    /\ Mutated
    /\ UNCHANGED <<stats, started, kafka_producer, wvars>>

\* ---- UserServiceImpl::find_by_id: the call and the repository's find_by_id
FindGet(t, id) ==
    /\ Free(t)
    /\ started < MaxOps
    /\ started' = started + 1
    /\ LET call == [Idle EXCEPT !.op = "find_by_id", !.id = id]
           got == find_by_id(db, id)
       IN  task' = [task EXCEPT ![t] =
                IF IsSome(got)
                THEN [call EXCEPT !.pc = "stat", !.res = "Ok", !.out = got]
                ELSE [call EXCEPT !.pc = "done", !.res = "Ok", !.ret = "OkNone"]]
    /\ UNCHANGED <<db, stats, now, nextId, listed, pager, kafka_producer, wvars>>

\* As UpdateApply, but an absent id is answered like a found one: the call
\* goes on to the statistics.
UpdateApply_counts_missing(t, id, name, email, age) ==
    /\ Free(t)
    /\ started < MaxOps
    /\ started' = started + 1
    /\ LET call == [Idle EXCEPT !.op = "update", !.id = id]
       IN  IF IsSome(Get(db, id))
           THEN /\ \E ts \in Readings(now) :
                    /\ db' = Updated(db, id, name, email, age, ts)
                    /\ now' = ts
                /\ task' = [task EXCEPT ![t] = [call EXCEPT !.pc = "reread",
                                !.name = name, !.email = email, !.age = age]]
                /\ Mutated
           ELSE /\ task' = [task EXCEPT ![t] = [call EXCEPT !.pc = "stat",
                                !.res = "UserNotFound"]]
                /\ UNCHANGED <<db, now, listed, pager>>
    /\ UNCHANGED <<stats, nextId, kafka_producer, wvars>>

\* ---- UserServiceImpl::update_user -> InMemoryUserRepository::update_user
\* The call, and update_user lines 90-105: the get_mut block, under the entry's lock
UpdateApply(t, id, name, email, age) ==
    /\ Free(t)
    /\ started < MaxOps
    /\ started' = started + 1
    /\ LET call == [Idle EXCEPT !.op = "update", !.id = id]
       IN  IF IsSome(Get(db, id))
           THEN /\ \E ts \in Readings(now) :
                    /\ db' = Updated(db, id, name, email, age, ts)
                    /\ now' = ts
                /\ task' = [task EXCEPT ![t] = [call EXCEPT !.pc = "reread",
                                !.name = name, !.email = email, !.age = age]]
                /\ Mutated
           ELSE /\ task' = [task EXCEPT ![t] = [call EXCEPT !.pc = "done",
                                !.res = "UserNotFound", !.ret = "OkNone"]]
                /\ UNCHANGED <<db, now, listed, pager>>
    /\ UNCHANGED <<stats, nextId, kafka_producer, wvars>>

\* As UpdateReread, but the result of find_by_id is not looked at: a record
\* that is gone is answered as success.
UpdateReread_ignores_missing(t) ==
    /\ task[t].op = "update" /\ task[t].pc = "reread"
    /\ task' = [task EXCEPT ![t] =
                [@ EXCEPT !.pc = "stat", !.res = "Ok", !.out = find_by_id(db, task[t].id),
                          !.name = None, !.email = None, !.age = None]]
    /\ UNCHANGED <<db, stats, now, nextId, started, listed, pager, kafka_producer, wvars>>

\* update_user, line 106: find_by_id(id) after the lock is released
UpdateReread(t) ==
    /\ task[t].op = "update" /\ task[t].pc = "reread"
    /\ LET got == find_by_id(db, task[t].id)
       IN  task' = [task EXCEPT ![t] =
                IF IsSome(got)
                THEN [@ EXCEPT !.pc = "stat", !.res = "Ok", !.out = got,
                               !.name = None, !.email = None, !.age = None]
                ELSE [@ EXCEPT !.pc = "done", !.res = "UserNotFound", !.ret = "OkNone",
                               !.name = None, !.email = None, !.age = None]]
    /\ UNCHANGED <<db, stats, now, nextId, started, listed, pager, kafka_producer, wvars>>

\* ---- UserServiceImpl::delete_user -> InMemoryUserRepository::delete_user
\* The call, and delete_user lines 110-116: look the key up by email
DeleteFind(t, email) ==
    /\ Free(t)
    /\ started < MaxOps
    /\ started' = started + 1
    /\ LET call == [Idle EXCEPT !.op = "delete", !.email = Some(email)]
           k == DeleteKey(db, email)
       IN  task' = [task EXCEPT ![t] =
                IF IsSome(k)
                THEN [call EXCEPT !.pc = "remove", !.key = k]
                ELSE [call EXCEPT !.pc = "done", !.res = "UserNotFound", !.ret = "Err"]]
    /\ UNCHANGED <<db, stats, now, nextId, listed, pager, kafka_producer, wvars>>

\* delete_user, lines 117-119: remove the key; the result of remove is dropped
DeleteRemove(t) ==
    /\ task[t].op = "delete" /\ task[t].pc = "remove"
    /\ db' = Remove(db, Unwrap(task[t].key))
    /\ task' = [task EXCEPT ![t] = [@ EXCEPT !.pc = "stat", !.res = "Ok"]]
    /\ Mutated
    /\ UNCHANGED <<stats, now, nextId, started, kafka_producer, wvars>>

\* ---- the service's increment_stat after a successful repository call
ServiceStat(t) ==
    /\ task[t].pc = "stat"
    /\ stats' = increment_stat(stats, task[t].op)
    /\ task' = [task EXCEPT ![t] = [@ EXCEPT !.pc = "done",
                    !.ret = IF task[t].op = "delete" THEN "Ok" ELSE "OkSome"]]
    /\ UNCHANGED <<db, now, nextId, started, listed, pager, kafka_producer, wvars>>

Opt(S) == {None} \cup {Some(v) : v \in S}
Ids == 1..MaxIds

Step(t) ==
    \/ \E n \in Names, e \in Emails, a \in Ages : CreateCheck(t, n, e, a)
    \/ CreateInsert(t)
    \/ \E id \in Ids : FindGet(t, id)
    \/ \E id \in Ids, n \in Opt(Names), e \in Opt(Emails), a \in Opt(Ages) :
            UpdateApply(t, id, n, e, a)
    \/ UpdateReread(t)
    \/ \E e \in Emails : DeleteFind(t, e)
    \/ DeleteRemove(t)
    \/ ServiceStat(t)

\* ---- UserServiceImpl::get_users -> InMemoryUserRepository::find_all
Pages == 0..MaxPage
PageSizes == 0..MaxPageSize

\* One list call; the answer is kept with its arguments.
ListCall(page, page_size, search) ==
    /\ listed = NoList /\ pager = NoPager
    /\ LET r == find_all(db, page, page_size, search)
       IN  listed' = [page |-> page, page_size |-> page_size, search |-> search,
                      res |-> r.res, users |-> r.users, total |-> r.total]
    /\ UNCHANGED <<db, stats, now, nextId, started, task, pager, kafka_producer, wvars>>

\* ceil(total / page_size)
PageCount(total, page_size) == (total + page_size - 1) \div page_size

\* A caller sets out to read every page of a listing, page 1 first.
PagerStart(page_size, search) ==
    /\ listed = NoList /\ pager = NoPager
    /\ page_size >= 1
    /\ pager' = [NoPager EXCEPT !.on = TRUE, !.page_size = page_size,
                                !.search = search, !.next = 1]
    /\ UNCHANGED <<db, stats, now, nextId, started, task, listed, kafka_producer, wvars>>

PagerDone ==
    /\ pager.on
    /\ pager.next > 1
    /\ \/ pager.res = "panic"
       \/ pager.next > PageCount(pager.total, pager.page_size)

\* Its next list call: page 1, then the pages up to ceil(total / page_size)
\* for the total the last call returned.
PagerFetch ==
    /\ pager.on /\ ~PagerDone
    /\ LET r == find_all(db, pager.next, pager.page_size, pager.search)
       IN  pager' = [pager EXCEPT !.next = @ + 1, !.acc = @ \o r.users,
                                  !.total = r.total, !.res = r.res]
    /\ UNCHANGED <<db, stats, now, nextId, started, task, listed, kafka_producer, wvars>>

\* ---------------------------------------------------------------- job pipeline
\* A KafkaEvent is a record [tag, path].  Its payload is the JSON text serde
\* writes for the enum, taken token by token: the variant's name, then the
\* value of the field "path".
ImportCsv(path) == [tag |-> "ImportCsv", path |-> path]
ExportCsv(path) == [tag |-> "ExportCsv", path |-> path]

\* serde_json::to_vec(event)
to_vec(event) == <<event.tag, event.path>>

\* As from_slice, but every payload with a path is taken for an import.
from_slice_any_tag(payload) ==
    IF Len(payload) = 2
    THEN Some([tag |-> "ImportCsv", path |-> payload[2]])
    ELSE None

\* serde_json::from_slice::<KafkaEvent>(payload): None stands for Err(e)
from_slice(payload) ==
    IF Len(payload) = 2 /\ payload[1] \in {"ImportCsv", "ExportCsv"}
    THEN Some([tag |-> payload[1], path |-> payload[2]])
    ELSE None

\* What stream.next() yields: Err(e), or Ok(message) with message.payload()
KafkaErr == [ok |-> FALSE, payload |-> None]
Message(payload) == [ok |-> TRUE, payload |-> payload]

\* As send_kafka_event, but a service without a producer answers Ok.
send_kafka_event_no_producer_ok(producer, sent) ==
    IF producer THEN (IF sent THEN "Ok" ELSE "Err") ELSE "Ok"

\* send_kafka_event, with KafkaEventProducer::send: `sent` is what the
\* producer's send future resolves to (the broker acknowledged the record,
\* or the delivery failed or timed out)
send_kafka_event(producer, sent) ==
    IF producer THEN (IF sent THEN "Ok" ELSE "Err") ELSE "Err"

\* ---- api.rs export_csv / import_csv: enqueue a job and answer
\* `sent` is read only when the service holds a producer.
RequestJob(t, event, sent) ==
    /\ Free(t)
    /\ Len(stream) < MaxMsgs
    /\ LET r == send_kafka_event(kafka_producer, sent)
           call == [Idle EXCEPT !.op = event.tag, !.pc = "done"]
       IN  /\ task' = [task EXCEPT ![t] =
                IF r = "Ok" THEN [call EXCEPT !.res = "Ok", !.ret = "Ok"]
                ELSE [call EXCEPT !.res = "Internal", !.ret = "Err"]]
           /\ stream' = IF kafka_producer /\ sent
                        THEN Append(stream, Message(Some(to_vec(event))))
                        ELSE stream
    /\ UNCHANGED <<db, stats, now, nextId, started, listed, pager, kafka_producer>>
    /\ UNCHANGED <<loop, jobs, wdb, wstats, files>>

export_csv(t, sent) == RequestJob(t, ExportCsv("data.csv"), sent)

import_csv(t, sent) == RequestJob(t, ImportCsv("users_export.csv"), sent)

\* ---- the broker: what reaches the stream from elsewhere (an error of the
\* client, a message without payload, a payload that is no KafkaEvent, a job
\* of another producer or a redelivery)
Payloads ==
    {<<>>, <<"ImportCsv">>, <<"DeleteAll", "data.csv">>}
        \cup {to_vec(ImportCsv(p)) : p \in Paths}
        \cup {to_vec(ExportCsv(p)) : p \in Paths}

Deliveries == {KafkaErr, Message(None)} \cup {Message(Some(b)) : b \in Payloads}

Deliver(d) ==
    /\ Len(stream) < MaxMsgs
    /\ stream' = Append(stream, d)
    /\ UNCHANGED <<db, stats, now, nextId, started, task, listed, pager, kafka_producer>>
    /\ UNCHANGED <<loop, jobs, wdb, wstats, files>>

\* As Spawned, but the task runs the operation of the other variant.
Spawned_other_operation(src, event) ==
    [src |-> src, op |-> IF event.tag = "ImportCsv" THEN "ExportCsv" ELSE "ImportCsv",
     path |-> event.path, pc |-> "spawned",
     res |-> "none", before |-> None, buffer |-> <<>>,
     requests |-> <<>>, i |-> 0, results |-> <<>>, at_call |-> <<>>]

\* A task as task::spawn leaves it: handle_event has not run yet.  src is the
\* position in the stream of the message it was spawned for; before and
\* at_call keep what an export found at its path and what an import's
\* bulk_create_users found in the store.
Spawned(src, event) ==
    [src |-> src, op |-> event.tag, path |-> event.path, pc |-> "spawned",
     res |-> "none", before |-> None, buffer |-> <<>>,
     requests |-> <<>>, i |-> 0, results |-> <<>>, at_call |-> <<>>]

\* As ConsumerNext, but an error of the stream ends the loop.
ConsumerNext_error_ends_loop ==
    /\ loop.pc = "listening"
    /\ loop.offset < Len(stream)
    /\ LET d == stream[loop.offset + 1]
           event == IF d.ok /\ IsSome(d.payload)
                    THEN from_slice(Unwrap(d.payload)) ELSE None
       IN  /\ loop' = [loop EXCEPT !.offset = @ + 1,
                                   !.pc = IF d.ok THEN "listening" ELSE "stopped"]
           /\ jobs' = IF IsSome(event)
                      THEN Append(jobs, Spawned(loop.offset + 1, Unwrap(event)))
                      ELSE jobs
    /\ UNCHANGED <<db, stats, now, nextId, started, task, listed, pager, kafka_producer>>
    /\ UNCHANGED <<stream, wdb, wstats, files>>

\* As ConsumerNext, but the loop awaits the task it spawned before it takes the
\* next delivery.
ConsumerNext_awaits_task ==
    /\ loop.pc = "listening"
    /\ loop.offset < Len(stream)
    /\ \A j \in 1..Len(jobs) : jobs[j].pc = "done"
    /\ LET d == stream[loop.offset + 1]
           event == IF d.ok /\ IsSome(d.payload)
                    THEN from_slice(Unwrap(d.payload)) ELSE None
       IN  /\ loop' = [loop EXCEPT !.offset = @ + 1]
           /\ jobs' = IF IsSome(event)
                      THEN Append(jobs, Spawned(loop.offset + 1, Unwrap(event)))
                      ELSE jobs
    /\ UNCHANGED <<db, stats, now, nextId, started, task, listed, pager, kafka_producer>>
    /\ UNCHANGED <<stream, wdb, wstats, files>>

\* ---- start_listening, lines 47-64: one turn of the loop.  stream.next()
\* yields the next delivery; a message whose payload is a KafkaEvent spawns a
\* task, everything else is logged or skipped; the loop waits again.
ConsumerNext ==
    /\ loop.pc = "listening"
    /\ loop.offset < Len(stream)
    /\ LET d == stream[loop.offset + 1]
           event == IF d.ok /\ IsSome(d.payload)
                    THEN from_slice(Unwrap(d.payload)) ELSE None
       IN  /\ loop' = [loop EXCEPT !.offset = @ + 1]
           /\ jobs' = IF IsSome(event)
                      THEN Append(jobs, Spawned(loop.offset + 1, Unwrap(event)))
                      ELSE jobs
    /\ UNCHANGED <<db, stats, now, nextId, started, task, listed, pager, kafka_producer>>
    /\ UNCHANGED <<stream, wdb, wstats, files>>

\* ---------------------------------------------------------------- the worker's tasks
Jobs == 1..Len(jobs)

\* The server process and the stream are left alone by the worker's tasks.
JobFrame == UNCHANGED <<db, stats, nextId, started, task, listed, pager,
                        kafka_producer, stream, loop>>

\* ---- handle_event -> import_from_csv, lines 230-300: open and read the file,
\* check the header, decode every record
ImportRead(j) ==
    /\ jobs[j].op = "ImportCsv" /\ jobs[j].pc = "spawned"
    /\ LET f == files[jobs[j].path]
           d == Decode(Unwrap(f))
       IN  jobs' = [jobs EXCEPT ![j] =
                IF f = None THEN [@ EXCEPT !.pc = "done", !.res = "Internal"]
                ELSE IF d.res # "Ok" THEN [@ EXCEPT !.pc = "done", !.res = d.res]
                ELSE IF d.requests = <<>> THEN [@ EXCEPT !.pc = "done", !.res = "Ok"]
                ELSE [@ EXCEPT !.pc = "check", !.requests = d.requests, !.i = 1,
                               !.at_call = wdb]]
    /\ UNCHANGED <<now, wdb, wstats, files>>
    /\ JobFrame

\* bulk_create_users, line 174: the request the i-th future creates
BulkRequest(job) == [job.requests[job.i] EXCEPT !.name = to_uppercase(@)]

\* As NextItem, but the first item that fails ends the batch with its error.
NextItem_abort_on_error(job, result) ==
    IF result # "Ok"
    THEN [job EXCEPT !.pc = "done", !.res = result, !.results = Append(@, result)]
    ELSE IF job.i = Len(job.requests)
    THEN [job EXCEPT !.pc = "done", !.res = "Ok", !.results = Append(@, result)]
    ELSE [job EXCEPT !.pc = "check", !.i = @ + 1, !.results = Append(@, result)]

\* bulk_create_users, lines 180-188: join_all polls the futures in turn and
\* each runs to its end when polled (none of its awaits suspends); after the
\* last one the results are logged and the answer is Ok(()).
NextItem(job, result) ==
    IF job.i = Len(job.requests)
    THEN [job EXCEPT !.pc = "done", !.res = "Ok", !.results = Append(@, result)]
    ELSE [job EXCEPT !.pc = "check", !.i = @ + 1, !.results = Append(@, result)]

\* As JobItemCheck, but the email is looked up in the store of the server
\* process.
JobItemCheck_reads_server_store(j) ==
    /\ jobs[j].pc = "check"
    /\ jobs' = [jobs EXCEPT ![j] =
            IF find_by_email_exists(db, BulkRequest(jobs[j]).email)
            THEN NextItem(@, "ValidationError")
            ELSE [@ EXCEPT !.pc = "insert"]]
    /\ UNCHANGED <<now, wdb, wstats, files>>
    /\ JobFrame

\* ---- the i-th future: create_user, repository line 58, on the worker's store
JobItemCheck(j) ==
    /\ jobs[j].pc = "check"
    /\ jobs' = [jobs EXCEPT ![j] =
            IF find_by_email_exists(wdb, BulkRequest(jobs[j]).email)
            THEN NextItem(@, "ValidationError")
            ELSE [@ EXCEPT !.pc = "insert"]]
    /\ UNCHANGED <<now, wdb, wstats, files>>
    /\ JobFrame

\* repository lines 63-72.  Nothing removes a record of the worker's store, so
\* an id no record has had is the number of records plus one.
JobItemInsert(j) ==
    /\ jobs[j].pc = "insert"
    /\ \E c \in Readings(now) : \E u \in Readings(c) :
        LET req == BulkRequest(jobs[j])
            user == NewUser(Len(wdb) + 1, req.name, req.email, req.age, c, u)
        IN  /\ wdb' \in Inserted(wdb, user)
            /\ now' = u
    /\ jobs' = [jobs EXCEPT ![j] = [@ EXCEPT !.pc = "stat"]]
    /\ UNCHANGED <<wstats, files>>
    /\ JobFrame

\* service line 106: increment_stat after the repository's Ok
JobItemStat(j) ==
    /\ jobs[j].pc = "stat"
    /\ wstats' = increment_stat(wstats, "create")
    /\ jobs' = [jobs EXCEPT ![j] = NextItem(@, "Ok")]
    /\ UNCHANGED <<now, wdb, files>>
    /\ JobFrame

\* The page size export_to_csv asks find_all for
ExportPageSize == 1000000

\* ---- handle_event -> export_to_csv, lines 194-209: read the store, fill the
\* buffer.  before is what the path holds when the export begins.
ExportEncode(j) ==
    /\ jobs[j].op = "ExportCsv" /\ jobs[j].pc = "spawned"
    /\ LET users == find_all(wdb, 1, ExportPageSize, None).users
       IN  jobs' = [jobs EXCEPT ![j] = [@ EXCEPT !.pc = "create",
                        !.buffer = Encode(users), !.before = files[jobs[j].path]]]
    /\ UNCHANGED <<now, wdb, wstats, files>>
    /\ JobFrame

\* lines 211-213: File::create makes the file or truncates the one there is,
\* or fails
ExportCreate(j, ok) ==
    /\ jobs[j].op = "ExportCsv" /\ jobs[j].pc = "create"
    /\ IF ok
       THEN /\ files' = [files EXCEPT ![jobs[j].path] = Some(<<>>)]
            /\ jobs' = [jobs EXCEPT ![j] = [@ EXCEPT !.pc = "write"]]
       ELSE /\ files' = files
            /\ jobs' = [jobs EXCEPT ![j] = [@ EXCEPT !.pc = "done", !.res = "Internal"]]
    /\ UNCHANGED <<now, wdb, wstats>>
    /\ JobFrame

\* The file after the first n rows of buf are written at its start
Written(old, buf, n) ==
    SubSeq(buf, 1, n) \o SubSeq(old, n + 1, Len(old))

\* lines 215-217: write_all writes the whole buffer, or fails after a part
\* of it (n rows)
ExportWrite(j, n) ==
    /\ jobs[j].op = "ExportCsv" /\ jobs[j].pc = "write"
    /\ n \in 0..Len(jobs[j].buffer)
    /\ LET path == jobs[j].path
       IN  files' = [files EXCEPT ![path] =
                        Some(Written(Unwrap(files[path]), jobs[j].buffer, n))]
    /\ jobs' = [jobs EXCEPT ![j] =
            IF n = Len(jobs[j].buffer) THEN [@ EXCEPT !.pc = "flush"]
            ELSE [@ EXCEPT !.pc = "done", !.res = "Internal"]]
    /\ UNCHANGED <<now, wdb, wstats>>
    /\ JobFrame

\* lines 219-224: flush, then Ok(())
ExportFlush(j, ok) ==
    /\ jobs[j].op = "ExportCsv" /\ jobs[j].pc = "flush"
    /\ jobs' = [jobs EXCEPT ![j] =
            [@ EXCEPT !.pc = "done", !.res = IF ok THEN "Ok" ELSE "Internal"]]
    /\ UNCHANGED <<now, wdb, wstats, files>>
    /\ JobFrame

\* ---- the files somebody puts into the worker's directory
CsvRow(name, email, age) == << <<"7">>, name, email, age, <<"0">>, <<"0">> >>

\* two records; an email in upper case, white space around the fields
GoodCsv ==
    <<expected_headers,
      CsvRow(<<"A", "l">>, <<"A", "@", " ">>, <<"1">>),
      CsvRow(<<" ", "B">>, <<"b", "@">>, <<" ", "2">>)>>

\* one record
OneCsv == <<expected_headers, CsvRow(<<"A", "l">>, <<"a", "@">>, <<"1">>)>>

\* the second record repeats the email of the first
DupCsv ==
    <<expected_headers,
      CsvRow(<<"A", "l">>, <<"a", "@">>, <<"1">>),
      CsvRow(<<"B">>, <<"A", "@">>, <<"2">>),
      CsvRow(<<"B">>, <<"b", "@">>, <<"2">>)>>

\* the header lacks created_at and updated_at
ShortHeaderCsv ==
    <<SubSeq(expected_headers, 1, 4),
      << <<"7">>, <<"A", "l">>, <<"a", "@">>, <<"1">> >> >>

\* a valid record, then one whose age is no number
BadAgeCsv ==
    <<expected_headers,
      CsvRow(<<"A", "l">>, <<"a", "@">>, <<"1">>),
      CsvRow(<<"B">>, <<"b", "@">>, <<"a", "b", "c">>)>>

CsvFiles == {<<>>, <<expected_headers>>, GoodCsv, DupCsv, ShortHeaderCsv, BadAgeCsv}

PutFile(path, rows) ==
    /\ files[path] = None
    /\ files' = [files EXCEPT ![path] = Some(rows)]
    /\ UNCHANGED <<now, jobs, wdb, wstats>>
    /\ JobFrame

Next == \E t \in Tasks : Step(t)

\* Every caller may be in a call at once (request handlers on a
\* multi-threaded runtime).
Spec == Init /\ [][Next]_vars

\* One caller only: each call runs to its end before the next one starts.
NextSeq == Step(1)

SpecSeq == Init /\ [][NextSeq]_vars

\* One caller that creates users, and list calls between its steps.
NextList ==
    \/ \E n \in Names, e \in Emails : CreateCheck(1, n, e, 1)
    \/ CreateInsert(1)
    \/ ServiceStat(1)
    \/ \E p \in Pages, ps \in PageSizes, q \in Opt(SearchTerms) : ListCall(p, ps, q)
    \/ \E ps \in PageSizes, q \in Opt(SearchTerms) : PagerStart(ps, q)
    \/ PagerFetch

SpecList == Init /\ [][NextList]_vars

\* Every caller creates users, with emails that are in lower case already.
LowerEmails == {to_lowercase(e) : e \in Emails}

NextCreate ==
    \E t \in Tasks :
        \/ \E n \in Names, e \in LowerEmails, a \in Ages : CreateCheck(t, n, e, a)
        \/ CreateInsert(t)
        \/ ServiceStat(t)

SpecCreate == Init /\ [][NextCreate]_vars

\* The worker's tasks, side by side (tokio::spawn on a multi-threaded runtime).
JobStep(j) ==
    \/ ImportRead(j)
    \/ JobItemCheck(j)
    \/ JobItemInsert(j)
    \/ JobItemStat(j)
    \/ ExportEncode(j)
    \/ \E ok \in BOOLEAN : ExportCreate(j, ok)
    \/ \E n \in 0..Len(jobs[j].buffer) : ExportWrite(j, n)
    \/ \E ok \in BOOLEAN : ExportFlush(j, ok)

\* No other task is under way: j runs alone, from its first step to its last.
Alone(j) == \A k \in Jobs : k # j => jobs[k].pc \in {"spawned", "done"}

\* Imports of users_export.csv, as the API enqueues them, one at a time.
NextImport ==
    \/ \E c \in CsvFiles : PutFile("users_export.csv", c)
    \/ \E sent \in BOOLEAN : import_csv(1, sent)
    \/ ConsumerNext
    \/ \E j \in Jobs : Alone(j) /\ ImportRead(j)
    \/ \E j \in Jobs : Alone(j) /\ JobItemCheck(j)
    \/ \E j \in Jobs : Alone(j) /\ JobItemInsert(j)
    \/ \E j \in Jobs : Alone(j) /\ JobItemStat(j)

SpecImport == Init /\ [][NextImport]_vars

\* No task is under way.
Quiet == \A k \in Jobs : jobs[k].pc \in {"spawned", "done"}

\* Jobs of any producer on both paths, one task at a time; File::create,
\* write_all and flush may fail.  Nobody else writes a file while a task runs.
Events == {ImportCsv(p) : p \in Paths} \cup {ExportCsv(p) : p \in Paths}

NextExport ==
    \/ \E p \in Paths, c \in {GoodCsv, <<expected_headers>>} : Quiet /\ PutFile(p, c)
    \/ \E e \in Events : Deliver(Message(Some(to_vec(e))))
    \/ ConsumerNext
    \/ \E j \in Jobs : Alone(j) /\ ImportRead(j)
    \/ \E j \in Jobs : Alone(j) /\ JobItemCheck(j)
    \/ \E j \in Jobs : Alone(j) /\ JobItemInsert(j)
    \/ \E j \in Jobs : Alone(j) /\ JobItemStat(j)
    \/ \E j \in Jobs : Alone(j) /\ ExportEncode(j)
    \/ \E j \in Jobs, ok \in BOOLEAN : Alone(j) /\ ExportCreate(j, ok)
    \/ \E j \in Jobs : \E n \in 0..Len(jobs[j].buffer) : Alone(j) /\ ExportWrite(j, n)
    \/ \E j \in Jobs, ok \in BOOLEAN : Alone(j) /\ ExportFlush(j, ok)

SpecExport == Init /\ [][NextExport]_vars

\* The consumer of the worker process: whatever the broker delivers, the
\* loop takes one delivery after the other and the tasks it spawns run side
\* by side.  users_export.csv may be there; data.csv is there once an export
\* has written it.
NextConsumer ==
    \/ PutFile("users_export.csv", OneCsv)
    \/ \E d \in Deliveries : Deliver(d)
    \/ ConsumerNext
    \/ \E j \in 1..MaxMsgs : j \in Jobs /\ ImportRead(j)
    \/ \E j \in 1..MaxMsgs : j \in Jobs /\ JobItemCheck(j)
    \/ \E j \in 1..MaxMsgs : j \in Jobs /\ JobItemInsert(j)
    \/ \E j \in 1..MaxMsgs : j \in Jobs /\ JobItemStat(j)
    \/ \E j \in 1..MaxMsgs : j \in Jobs /\ ExportEncode(j)
    \/ \E j \in 1..MaxMsgs, ok \in BOOLEAN : j \in Jobs /\ ExportCreate(j, ok)
    \/ \E j \in 1..MaxMsgs : j \in Jobs /\ \E n \in 0..Len(jobs[j].buffer) : ExportWrite(j, n)
    \/ \E j \in 1..MaxMsgs, ok \in BOOLEAN : j \in Jobs /\ ExportFlush(j, ok)

SpecConsumer == Init /\ [][NextConsumer]_vars

\* The loop is a task of the runtime: a delivery that is there is taken.
SpecConsumerFair == SpecConsumer /\ WF_vars(ConsumerNext)

\* The handlers of POST /users/export and /users/import, on a service with
\* or without a producer, and the loop that takes what they enqueue.
NextQueue ==
    \/ \E t \in Tasks, sent \in BOOLEAN : export_csv(t, sent)
    \/ \E t \in Tasks, sent \in BOOLEAN : import_csv(t, sent)
    \/ ConsumerNext

SpecQueue == InitNew /\ [][NextQueue]_vars

\* The statistics of both processes.  The two share nothing (each has its own
\* store and its own aggregate), so the order of their steps is free: here the
\* worker imports first, one file at a time, and the server's callers run
\* create, find_by_id, update and delete side by side once the first import
\* has stored its two records before the clock's first tick (the records in
\* the order of their ids).
ServerRuns ==
    /\ Len(stream) = 1 /\ loop.offset = 1 /\ jobs[1].pc = "done"
    /\ Len(wdb) = 2
    /\ \A k \in 1..Len(wdb) : wdb[k].id = k /\ wdb[k].updated_at = 0

WorkerRuns == started = 0

NextStats ==
    \/ \E t \in Tasks : ServerRuns /\ CreateCheck(t, <<"B">>, <<"a", "@">>, 1)
    \/ \E t \in Tasks : ServerRuns /\ CreateInsert(t)
    \/ \E t \in Tasks, id \in Ids : ServerRuns /\ FindGet(t, id)
    \/ \E t \in Tasks, id \in Ids : ServerRuns /\ UpdateApply(t, id, None, None, Some(2))
    \/ \E t \in Tasks : ServerRuns /\ UpdateReread(t)
    \/ \E t \in Tasks : ServerRuns /\ DeleteFind(t, <<"a", "@">>)
    \/ \E t \in Tasks : ServerRuns /\ DeleteRemove(t)
    \/ \E t \in Tasks : ServerRuns /\ ServiceStat(t)
    \/ WorkerRuns /\ PutFile("users_export.csv", DupCsv)
    \/ WorkerRuns /\ Deliver(Message(Some(to_vec(ImportCsv("users_export.csv")))))
    \/ WorkerRuns /\ ConsumerNext
    \/ \E j \in 1..MaxMsgs : j \in Jobs /\ Alone(j) /\ ImportRead(j)
    \/ \E j \in 1..MaxMsgs : j \in Jobs /\ Alone(j) /\ JobItemCheck(j)
    \/ \E j \in 1..MaxMsgs : j \in Jobs /\ Alone(j) /\ JobItemInsert(j)
    \/ \E j \in 1..MaxMsgs : j \in Jobs /\ Alone(j) /\ JobItemStat(j)

SpecStats == Init /\ [][NextStats]_vars

\* Updates of one record, side by side: a name on one caller, an age on
\* another, while the record is created and deleted by its email.
NextUpdate ==
    \/ \E t \in Tasks : CreateCheck(t, <<"A", "l">>, <<"a", "@">>, 1)
    \/ \E t \in Tasks : CreateInsert(t)
    \/ \E t \in Tasks, id \in Ids : UpdateApply(t, id, Some(<<"B">>), None, None)
    \/ \E t \in Tasks, id \in Ids : UpdateApply(t, id, None, None, Some(2))
    \/ \E t \in Tasks : UpdateReread(t)
    \/ \E t \in Tasks : DeleteFind(t, <<"a", "@">>)
    \/ \E t \in Tasks : DeleteRemove(t)
    \/ \E t \in Tasks : ServiceStat(t)

SpecUpdate == Init /\ [][NextUpdate]_vars

\* The two processes of main: the server, where one caller creates and
\* deletes on its store, the store is listed and another caller enqueues the
\* jobs, and the worker, whose tasks run the jobs one at a time on its own
\* store.
NextProcesses ==
    \/ CreateCheck(1, <<"B">>, <<"a", "@">>, 1)
    \/ CreateInsert(1)
    \/ DeleteFind(1, <<"a", "@">>)
    \/ DeleteRemove(1)
    \/ ServiceStat(1)
    \/ ListCall(1, 2, None)
    \/ export_csv(2, TRUE)
    \/ import_csv(2, TRUE)
    \/ PutFile("users_export.csv", OneCsv)
    \/ ConsumerNext
    \/ \E j \in 1..MaxMsgs : j \in Jobs /\ Alone(j) /\ ImportRead(j)
    \/ \E j \in 1..MaxMsgs : j \in Jobs /\ Alone(j) /\ JobItemCheck(j)
    \/ \E j \in 1..MaxMsgs : j \in Jobs /\ Alone(j) /\ JobItemInsert(j)
    \/ \E j \in 1..MaxMsgs : j \in Jobs /\ Alone(j) /\ JobItemStat(j)
    \/ \E j \in 1..MaxMsgs : j \in Jobs /\ Alone(j) /\ ExportEncode(j)
    \/ \E j \in 1..MaxMsgs : j \in Jobs /\ Alone(j) /\ ExportCreate(j, TRUE)
    \/ \E j \in 1..MaxMsgs : j \in Jobs /\ Alone(j) /\ ExportWrite(j, Len(jobs[j].buffer))
    \/ \E j \in 1..MaxMsgs : j \in Jobs /\ Alone(j) /\ ExportFlush(j, TRUE)

SpecProcesses == Init /\ [][NextProcesses]_vars

\* ================================================================ claims
\* What the claims speak of, said without the code's own helpers.

\* s and q are the same text up to letter case
SameText(s, q) ==
    /\ Len(s) = Len(q)
    /\ \A i \in 1..Len(s) : LowerChar(s[i]) = LowerChar(q[i])

\* q occurs in s as a case-insensitive substring
HasTerm(s, q) ==
    \E i \in 0..(Len(s) - Len(q)) :
        \A k \in 1..Len(q) : LowerChar(s[i + k]) = LowerChar(q[k])

\* the record belongs to the listing's filtered set
InFilter(u, search) ==
    \/ search = None
    \/ HasTerm(u.name, Unwrap(search))
    \/ HasTerm(u.email, Unwrap(search))

MatchCount(m, search) == Cardinality({i \in 1..Len(m) : InFilter(m[i], search)})

Records(m) == {m[i] : i \in 1..Len(m)}

\* C1: of the create calls that run concurrently with emails that normalize
\* to the same lowercase email, at most one returns a record.  (Under
\* SpecCreate nothing is ever removed or updated, so two callers that both
\* hold a returned record for one normalized email are two successes.)
C1_AtMostOneCreateReturns ==
    \A t1, t2 \in Tasks :
        ( /\ t1 # t2
          /\ task[t1].op = "create" /\ task[t1].res = "Ok"
          /\ task[t2].op = "create" /\ task[t2].res = "Ok" )
        => ~SameText(Unwrap(task[t1].email), Unwrap(task[t2].email))

\* C2: in every reachable state no two stored records have the same
\* normalized (lowercased) email.
C2_UniqueEmails ==
    \A i, j \in 1..Len(db) :
        i # j => to_lowercase(db[i].email) # to_lowercase(db[j].email)

\* C3: a create call that runs alone and whose email normalizes to the email
\* of a stored record fails with the duplicate-email error and leaves the
\* store unchanged (also when only the letter case differs); otherwise it
\* goes on to insert exactly one record with the lowercased email.
C3_CreateRejectsDuplicate ==
    [][ /\ \A n \in Names, e \in Emails, a \in Ages :
            CreateCheck(1, n, e, a) =>
                /\ db' = db
                /\ (\E i \in 1..Len(db) : SameText(db[i].email, e))
                        <=> (task'[1].pc = "done" /\ task'[1].res = "ValidationError")
        /\ CreateInsert(1) =>
                /\ Len(db') = Len(db) + 1
                /\ Records(db) \subseteq Records(db')
                /\ \A u \in Records(db') \ Records(db) :
                        u.email = to_lowercase(Unwrap(task[1].email))
      ]_vars

\* C4: of the delete calls for one email that run concurrently on a store
\* with one record of that email, exactly one returns success (a delete
\* that returns success has removed the record it found), the others
\* NotFound; a delete for an email no record has returns NotFound and leaves
\* the store unchanged.
C4_OneDeleteSucceeds ==
    [][ /\ \A t \in Tasks :
            DeleteRemove(t) => Unwrap(task[t].key) \in Keys(db)
        /\ \A t \in Tasks, e \in Emails :
            (DeleteFind(t, e) /\ ~\E i \in 1..Len(db) : db[i].email = e)
                => (db' = db /\ task'[t].res = "UserNotFound")
      ]_vars

\* C5: a list call whose page lies beyond the filtered set, (page - 1) *
\* pageSize >= number of matching records, returns an empty slice and the
\* number of matching records as total; it never fails or aborts.
C5_PageBeyondIsEmpty ==
    ( /\ listed.res # "none"
      /\ listed.page >= 1
      /\ (listed.page - 1) * listed.page_size >= MatchCount(db, listed.search) )
    => ( /\ listed.res = "Ok"
         /\ listed.users = <<>>
         /\ listed.total = MatchCount(db, listed.search) )

\* C6: on a store that is not mutated between the calls, for every page size
\* >= 1 and every search term, the pages 1 .. ceil(total / pageSize) put
\* together hold every record of the filtered set exactly once, and nothing
\* else.
C6_PagesCoverFilteredSet ==
    PagerDone =>
        /\ pager.res = "Ok"
        /\ \A k \in 1..Len(pager.acc) : pager.acc[k] \in Records(db)
        /\ \A u \in Records(db) :
              Cardinality({k \in 1..Len(pager.acc) : pager.acc[k].id = u.id})
                = IF InFilter(u, pager.search) THEN 1 ELSE 0

\* A caller has read two pages with a search term, one record each.
C6_Witness ==
    /\ PagerDone
    /\ pager.next = 3
    /\ IsSome(pager.search)
    /\ Len(pager.acc) = 2

\* C7: a list call returns only records whose name or email contains the
\* term as a case-insensitive substring; total is the number of all such
\* records of the store whatever the page and page size, and the number of
\* records of the store when there is no search term.
C7_ListFilterAndTotal ==
    listed.res = "Ok" =>
        /\ \A k \in 1..Len(listed.users) :
              /\ listed.users[k] \in Records(db)
              /\ InFilter(listed.users[k], listed.search)
        /\ listed.total = MatchCount(db, listed.search)
        /\ listed.search = None => listed.total = Len(db)

\* A list call with an upper-case term has returned one of two records,
\* matched through its lower-case email.
C7_Witness ==
    /\ listed.res = "Ok"
    /\ listed.search = Some(<<"B", "@">>)
    /\ Len(db) = 2
    /\ listed.total = 1
    /\ Len(listed.users) = 1

\* C8: an update of a stored id with an empty partial refreshes updated_at and
\* leaves id, name, email, age and created_at of the record, and every other
\* record, as they were; in general an update changes only the fields the
\* partial holds (the email to its lower case) and never id or created_at.
C8_UpdateFrame ==
    [][ \A t \in Tasks :
          LET id == task'[t].id
              n  == task'[t].name
              e  == task'[t].email
              a  == task'[t].age
          IN  ( /\ task'[t].op = "update" /\ task'[t].pc = "reread"
                /\ UpdateApply(t, id, n, e, a) ) =>
                LET old == Unwrap(Get(db, id))
                    new == Unwrap(Get(db', id))
                IN  /\ Len(db') = Len(db)
                    /\ \A i \in 1..Len(db) : db[i].id # id => db'[i] = db[i]
                    /\ IsSome(Get(db', id))
                    /\ new.id = old.id
                    /\ new.created_at = old.created_at
                    /\ new.name = IF n = None THEN old.name ELSE Unwrap(n)
                    /\ IF e = None THEN new.email = old.email
                                    ELSE SameText(new.email, Unwrap(e))
                    /\ new.age = IF a = None THEN old.age ELSE Unwrap(a)
                    /\ new.updated_at = now'
                    /\ new.updated_at >= old.updated_at
      ]_vars

\* An update with an empty partial has acted on one of two records, and the
\* record's updated_at is later than its created_at.
C8_Witness ==
    \E t \in Tasks :
        /\ task[t].op = "update" /\ task[t].pc = "reread"
        /\ task[t].name = None /\ task[t].email = None /\ task[t].age = None
        /\ Len(db) = 2
        /\ \E u \in Records(db) :
              u.id = task[t].id /\ u.updated_at = now /\ u.updated_at > u.created_at

\* C9: an update of an id that is not in the store fails with NotFound and
\* leaves the store as it was; the service call ends there (it answers
\* none) and leaves the statistics as they were.
C9_UpdateAbsentId ==
    [][ \A t \in Tasks :
          ( /\ started' = started + 1
            /\ task'[t].op = "update"
            /\ task'[t].id \notin Keys(db) ) =>
            \A n \in Opt(Names), e \in Opt(Emails), a \in Opt(Ages) :
                UpdateApply(t, task'[t].id, n, e, a) =>
                    /\ db' = db
                    /\ stats' = stats
                    /\ task'[t].res = "UserNotFound"
                    /\ task'[t].pc = "done"
                    /\ task'[t].ret = "OkNone"
      ]_vars

\* An update of an absent id has returned while the store holds a record and
\* the statistics have counted a call.
C9_Witness ==
    \E t \in Tasks :
        /\ task[t].op = "update" /\ task[t].pc = "done"
        /\ task[t].res = "UserNotFound"
        /\ task[t].id \notin Keys(db)
        /\ Len(db) >= 1
        /\ stats.total_operations >= 1

\* C10: once a delete(email) that runs alone has returned success,
\* find_by_email(email) answers none and find_by_email_exists(email) answers
\* false, whatever calls came before; the records with another email are
\* left as they were.
C10_DeletedEmailIsGone ==
    [][ \A t \in Tasks :
          DeleteRemove(t) =>
            LET e == Unwrap(task[t].email)
            IN  /\ find_by_email(db', e) = None
                /\ ~find_by_email_exists(db', e)
                /\ \A u \in Records(db) : u.email # e => u \in Records(db')
      ]_vars

\* What a valid file is, said without the decoder: the six columns, and in
\* every record six fields with a name, an email with an @ and an age that is
\* a number up to 255, white space aside.
Blank(s) == \A i \in 1..Len(s) : s[i] = " "

IsNumber(s) ==
    LET t == trim(s)
        d == IF t # <<>> /\ t[1] = "+" THEN Tail(t) ELSE t
    IN  /\ d # <<>>
        /\ \A i \in 1..Len(d) : d[i] \in {"0", "1", "2", "3", "4", "5", "6", "7", "8", "9"}
        /\ DecimalValue(d) <= 255

HeaderOk(rows) == rows # <<>> /\ rows[1] = expected_headers

RowOk(row) ==
    /\ Len(row) = 6
    /\ ~Blank(row[2]) /\ ~Blank(row[3]) /\ ~Blank(row[4])
    /\ \E i \in 1..Len(row[3]) : row[3][i] = "@"
    /\ IsNumber(row[4])

EmailCount(m, email) ==
    Cardinality({i \in 1..Len(m) : SameText(m[i].email, email)})

\* C11: bulk_create returns success whatever its items did, and an item that
\* fails does not keep another item from being created: when a bulk_create
\* that ran alone has returned, every request whose normalized email was the
\* email of no record when the call began and of no other request of the
\* batch has exactly one record in the store.
C11_BulkBestEffort ==
    \A j \in Jobs :
        (jobs[j].op = "ImportCsv" /\ jobs[j].pc = "done" /\ jobs[j].requests # <<>>) =>
            LET rq == jobs[j].requests
            IN  /\ jobs[j].res = "Ok"
                /\ Len(jobs[j].results) = Len(rq)
                /\ \A i \in 1..Len(rq) :
                      ( /\ EmailCount(jobs[j].at_call, rq[i].email) = 0
                        /\ \A k \in 1..Len(rq) :
                              k # i => ~SameText(rq[k].email, rq[i].email) )
                      => EmailCount(wdb, rq[i].email) = 1

\* A bulk_create of three requests has returned: the second failed on the
\* email of the first, the third was created after it.
C11_Witness ==
    \E j \in Jobs :
        /\ jobs[j].pc = "done" /\ jobs[j].res = "Ok"
        /\ jobs[j].results = <<"Ok", "ValidationError", "Ok">>
        /\ Len(wdb) = 2
        /\ EmailCount(wdb, <<"b", "@">>) = 1

\* C12: an import decodes the whole file before it creates anything: when the
\* header is not the six columns, or some record is not valid, the import
\* fails with that error (CsvError for the header and the shape, the
\* ValidationError of the first bad record) in its first step, and the store
\* and the statistics are as before, valid earlier records or not.  An import
\* never fails later than that.
C12_ImportDecodesFirst ==
    [][ \A j \in Jobs :
          /\ ImportRead(j) =>
                LET f == files[jobs[j].path]
                    rows == Unwrap(f)
                    bad == {i \in 2..Len(rows) : ~RowOk(rows[i])}
                IN  ( /\ f # None
                      /\ (~HeaderOk(rows) \/ bad # {}) ) =>
                        /\ jobs'[j].pc = "done"
                        /\ jobs'[j].res =
                              IF ~HeaderOk(rows) THEN "CsvError"
                              ELSE IF Len(rows[CHOOSE i \in bad : \A k \in bad : i <= k]) # 6
                              THEN "CsvError" ELSE "ValidationError"
                        /\ wdb' = wdb /\ wstats' = wstats
          /\ ( /\ jobs[j].op = "ImportCsv" /\ jobs[j].pc # "done"
               /\ jobs'[j].pc = "done" /\ jobs'[j].res # "Ok" ) =>
                /\ jobs[j].pc = "spawned"
                /\ wdb' = wdb /\ wstats' = wstats
      ]_vars

\* An import of a file whose second record has the age abc has failed with
\* ValidationError; the first record of the file is valid and the store
\* holds nothing of it.
C12_Witness ==
    \E j \in Jobs :
        /\ jobs[j].op = "ImportCsv" /\ jobs[j].pc = "done"
        /\ jobs[j].res = "ValidationError"
        /\ files[jobs[j].path] = Some(BadAgeCsv)
        /\ RowOk(BadAgeCsv[2])
        /\ wdb = <<>> /\ wstats = NoStats

\* C13: when the consumer's task for an ExportCsv job has run with no other
\* task beside it and returns Ok, the file at the job's path is the header
\* row followed by exactly one data row for each record of the store, none
\* left out, whatever the number of records.
C13_ExportOneRowPerRecord ==
    [][ \A j \in Jobs :
          (ExportFlush(j, TRUE) /\ Alone(j)) =>
            LET f == files'[jobs[j].path]
                rows == Unwrap(f)
            IN  /\ f # None
                /\ Len(rows) = Len(wdb) + 1
                /\ rows[1] = expected_headers
                /\ \A u \in Records(wdb) :
                      Cardinality({i \in 2..Len(rows) : rows[i] = UserRow(u)}) = 1
      ]_vars

\* C14: what an export encodes begins with the header row id, name, email,
\* age, created_at, updated_at, also when the store holds no record; so the
\* header check of an import does not reject it.
C14_ExportHasHeader ==
    \A j \in Jobs :
        (jobs[j].op = "ExportCsv" /\ jobs[j].pc # "spawned") =>
            /\ HeaderOk(jobs[j].buffer)
            /\ actual_headers(jobs[j].buffer) = expected_headers

\* C15: an export that fails (File::create, write_all or flush) leaves at its
\* path what was there before it began, or the complete encoding: never a
\* file that is truncated or written in part.
C15_ExportNeverPartial ==
    [][ \A j \in Jobs :
          ( /\ Alone(j)
            /\ jobs[j].op = "ExportCsv" /\ jobs[j].pc # "done"
            /\ jobs'[j].pc = "done" /\ jobs'[j].res # "Ok" ) =>
            \/ files'[jobs[j].path] = jobs'[j].before
            \/ files'[jobs[j].path] = Some(jobs'[j].buffer)
      ]_vars

\* The delivery is a message whose payload is a Job Description: a variant
\* name and a path.
IsJob(d) ==
    /\ d.ok
    /\ d.payload # None
    /\ Len(Unwrap(d.payload)) = 2
    /\ Unwrap(d.payload)[1] \in {"ImportCsv", "ExportCsv"}

TasksOf(k) == {j \in Jobs : jobs[j].src = k}

\* C16: when the loop takes a message whose payload is no Job Description, it
\* spawns no task and calls nothing of the service (store, statistics and
\* files stay), leaves the stream as it is (nothing is put back), and waits
\* for the next delivery; a valid message that comes later is still taken
\* and gets its task.
C16_BadPayloadDropped ==
    /\ [][ ConsumerNext =>
            LET d == stream[loop.offset + 1]
            IN  ~IsJob(d) =>
                  /\ jobs' = jobs
                  /\ stream' = stream
                  /\ <<wdb, wstats, files>>' = <<wdb, wstats, files>>
                  /\ loop'.pc = "listening"
                  /\ loop'.offset = loop.offset + 1
         ]_vars
    /\ [](\A k \in 1..loop.offset :
            /\ ~IsJob(stream[k]) => TasksOf(k) = {}
            /\ (IsJob(stream[k]) /\ \E b \in 1..(k - 1) : ~IsJob(stream[b]))
                    => TasksOf(k) # {})

\* The loop has dropped a payload with an unknown variant and then spawned
\* the task of the valid message after it.
C16_Witness ==
    /\ loop.offset = 2
    /\ stream[1] = Message(Some(<<"DeleteAll", "data.csv">>))
    /\ IsJob(stream[2])
    /\ Len(jobs) = 1
    /\ jobs[1].src = 2

\* C17: the loop never ends: whatever was delivered (messages, errors of the
\* broker) and whatever became of the tasks (imports and exports that fail),
\* the loop is listening and every delivery of the stream is taken in the
\* end; the steps of a task touch neither the loop nor the stream nor any
\* caller of the API.
C17_LoopNeverEnds ==
    /\ [](loop.pc = "listening")
    /\ \A k \in 1..MaxMsgs : (Len(stream) >= k) ~> (loop.offset >= k)
    /\ [][ \A j \in Jobs :
             (j <= Len(jobs') /\ jobs'[j] # jobs[j]) =>
                /\ loop' = loop /\ stream' = stream
                /\ task' = task
         ]_vars

\* An error of the broker and a job whose task has failed lie behind the
\* loop, which has taken every delivery.
C17_Witness ==
    /\ loop.pc = "listening"
    /\ loop.offset = 2 /\ Len(stream) = 2
    /\ stream[1] = KafkaErr
    /\ Len(jobs) = 1
    /\ jobs[1].pc = "done" /\ jobs[1].res = "Internal"

\* C18: every valid message the loop has taken has exactly one task, and the
\* task runs the operation of the job's variant on the job's path: the task
\* of an ImportCsv reads that file and writes none, the task of an ExportCsv
\* writes that file only and leaves the store and the statistics.
C18_OneTaskPerJob ==
    /\ [](\A k \in 1..loop.offset :
            IsJob(stream[k]) =>
                /\ Cardinality(TasksOf(k)) = 1
                /\ \A j \in TasksOf(k) :
                      /\ jobs[j].op = Unwrap(stream[k].payload)[1]
                      /\ jobs[j].path = Unwrap(stream[k].payload)[2])
    /\ [][ \A j \in Jobs :
             (j <= Len(jobs') /\ jobs'[j] # jobs[j]) =>
                LET tag == Unwrap(stream[jobs[j].src].payload)[1]
                    path == Unwrap(stream[jobs[j].src].payload)[2]
                IN  /\ tag = "ImportCsv" =>
                          /\ files' = files
                          /\ jobs[j].pc = "spawned" =>
                                (files[path] = None <=> jobs'[j].res = "Internal")
                    /\ tag = "ExportCsv" =>
                          /\ wdb' = wdb /\ wstats' = wstats
                          /\ \A p \in Paths : p # path => files'[p] = files[p]
                          /\ jobs'[j].pc = "write" => files'[path] # None
         ]_vars

\* The loop has taken an export and an import of the file the export wrote;
\* each has its task, and both tasks are done.
C18_Witness ==
    /\ loop.offset = 2
    /\ stream[1] = Message(Some(to_vec(ExportCsv("data.csv"))))
    /\ stream[2] = Message(Some(to_vec(ImportCsv("data.csv"))))
    /\ Len(jobs) = 2
    /\ jobs[1].pc = "done" /\ jobs[1].res = "Ok"
    /\ jobs[2].pc = "done" /\ jobs[2].res = "CsvError"

\* C19: a request for an export or an import answers success only when the
\* producer's send was acknowledged, and then exactly that job is in the
\* topic, once; when the send fails or times out, or the service has no
\* producer, the caller gets an Internal error, and the call has put nothing
\* into the topic (nothing is sent again).
C19_EnqueueOrInternal ==
    [][ \A t \in Tasks :
          \A e \in {ExportCsv("data.csv"), ImportCsv("users_export.csv")} :
            \A sent \in BOOLEAN :
              RequestJob(t, e, sent) =>
                /\ task'[t].ret = "Ok" <=> (kafka_producer /\ sent)
                /\ task'[t].ret = "Ok" =>
                      /\ Len(stream') = Len(stream) + 1
                      /\ SubSeq(stream', 1, Len(stream)) = stream
                      /\ stream'[Len(stream')].ok
                      /\ stream'[Len(stream')].payload = Some(<<e.tag, e.path>>)
                /\ task'[t].ret # "Ok" =>
                      /\ task'[t].ret = "Err" /\ task'[t].res = "Internal"
                      /\ stream' = stream
      ]_vars

\* One request was acknowledged and its job is the only message of the
\* topic; another, on the same service, failed with Internal.
C19_Witness ==
    /\ kafka_producer
    /\ task[1].op = "ExportCsv" /\ task[1].ret = "Ok"
    /\ task[2].op = "ImportCsv" /\ task[2].res = "Internal"
    /\ stream = <<Message(Some(to_vec(ExportCsv("data.csv"))))>>

\* The counter of the aggregate that belongs to an operation.
OwnCounter(op) ==
    CASE op = "create" -> "create_count"
      [] op = "find_by_id" -> "read_count"
      [] op = "update" -> "update_count"
      [] op = "delete" -> "delete_count"

\* From aggregate s to aggregate s2, the counter of op and total_operations
\* went up by one and no other counter moved.
CountedOnce(s, s2, op) ==
    \A f \in DOMAIN s :
        s2[f] = s[f] + (IF f \in {OwnCounter(op), "total_operations"} THEN 1 ELSE 0)

\* In this step the call of caller t returns.
Returns(t) == task[t].pc # "done" /\ task'[t].pc = "done"

\* In this step an item of the batch of task j has its result.
ItemEnds(j) == Len(jobs'[j].results) = Len(jobs[j].results) + 1

Last(s) == s[Len(s)]

\* C20: a create, find_by_id, update or delete that returns success has added
\* exactly one to its own counter and to total_operations in the step that
\* ends it, whatever the other callers do meanwhile, and so has every item
\* of a bulk_create that was created, on the aggregate of its process; a call
\* or an item that fails or finds nothing leaves the aggregate as it was; the
\* aggregate changes in no other step, and no counter ever goes down.
C20_StatsCountSuccesses ==
    [][ /\ \A t \in Tasks : Returns(t) =>
              IF task'[t].ret \in {"Ok", "OkSome"}
              THEN CountedOnce(stats, stats', task'[t].op)
              ELSE stats' = stats
        /\ started' # started => stats' = stats
        /\ stats' # stats =>
              Cardinality({t \in Tasks : Returns(t) /\ task'[t].ret \in {"Ok", "OkSome"}}) = 1
        /\ \A j \in Jobs : ItemEnds(j) =>
              IF Last(jobs'[j].results) = "Ok"
              THEN CountedOnce(wstats, wstats', "create")
              ELSE wstats' = wstats
        /\ wstats' # wstats =>
              Cardinality({j \in Jobs : ItemEnds(j) /\ Last(jobs'[j].results) = "Ok"}) = 1
        /\ \A f \in DOMAIN stats : stats'[f] >= stats[f] /\ wstats'[f] >= wstats[f]
      ]_vars

\* After an import that created two of its three items, one caller's create
\* and another's find_by_id have succeeded and a second create was refused.
C20_Witness ==
    /\ Len(jobs) = 1
    /\ jobs[1].results = <<"Ok", "ValidationError", "Ok">>
    /\ wstats.create_count = 2 /\ wstats.total_operations = 2
    /\ task[1].op = "find_by_id" /\ task[1].ret = "OkSome"
    /\ task[2].op = "create" /\ task[2].ret = "Err"
    /\ stats.create_count = 1 /\ stats.read_count = 1 /\ stats.total_operations = 2
    /\ started = 3

\* The tasks that imported the requests rq to their end.
ImportedBy(rq) ==
    {j \in Jobs : jobs[j].op = "ImportCsv" /\ jobs[j].pc = "done"
                    /\ jobs[j].res = "Ok" /\ jobs[j].requests = rq}

\* C21: an ImportCsv message that is delivered twice does what one delivery
\* does: when every task of the worker is an import of the same records that
\* has ended, side by side with the others or not, the store holds each
\* normalized email of the file in one record and no other record.
C21_RedeliveryTolerated ==
    \A j \in Jobs :
        LET rq == jobs[j].requests
        IN  (rq # <<>> /\ ImportedBy(rq) = Jobs) =>
                /\ \A i \in 1..Len(rq) : EmailCount(wdb, rq[i].email) = 1
                /\ \A k \in 1..Len(wdb) :
                      \E i \in 1..Len(rq) : SameText(wdb[k].email, rq[i].email)

\* A task of the worker that has not ended.
Running(j) == j \in Jobs /\ jobs[j].pc # "done"

\* C22: the loop takes the next delivery without waiting for the tasks it has
\* spawned: whenever a delivery waits, the loop's step can be taken, running
\* tasks or not; and in a behaviour where the first task never ends, every
\* delivery of the stream is taken all the same.
C22_LoopDoesNotWait ==
    /\ [](loop.offset < Len(stream) => ENABLED ConsumerNext)
    /\ \A k \in 1..MaxMsgs :
          (<>[]Running(1)) => ((Len(stream) >= k) ~> (loop.offset >= k))

\* The second message has been taken and has its task while the task of the
\* first message has not taken a step.
C22_Witness ==
    /\ loop.offset = 2
    /\ Len(jobs) = 2
    /\ jobs[1].src = 1 /\ jobs[1].pc = "spawned"
    /\ jobs[2].src = 2 /\ jobs[2].pc = "spawned"

\* The fields a partial update can set, and what a caller's call sets them to.
Settable == {"name", "email", "age"}

Sets(call, f) == call[f] # None

\* In this step caller t's update writes the record of its id.
Writes(t) ==
    /\ task[t].pc \in {"idle", "done"}
    /\ task'[t].op = "update" /\ task'[t].pc = "reread"

\* In this step caller t's update reads the record back.
Rereads(t) ==
    /\ task[t].op = "update" /\ task[t].pc = "reread"
    /\ task'[t].pc # "reread"

\* C23: updates of one id are serialized and none is lost: when an update
\* writes the record while another update of the same id, which set other
\* fields, is still under way, the record carries what this update sets and
\* still carries what the other one had set; and an update returns success
\* only with the record that is stored under its id when it reads it back,
\* changes of the other callers included, and returns that record unchanged.
C23_NoLostUpdate ==
    [][ \A t \in Tasks :
          /\ Writes(t) =>
                LET id == task'[t].id
                    old == Unwrap(Get(db, id))
                    new == Unwrap(Get(db', id))
                IN  /\ IsSome(Get(db', id))
                    /\ \A f \in Settable :
                          Sets(task'[t], f) =>
                              IF f = "email"
                              THEN SameText(new[f], Unwrap(task'[t][f]))
                              ELSE new[f] = Unwrap(task'[t][f])
                    /\ \A u \in Tasks \ {t} :
                          ( /\ task[u].op = "update" /\ task[u].pc = "reread"
                            /\ task[u].id = id
                            /\ \A f \in Settable : ~(Sets(task[u], f) /\ Sets(task'[t], f)) )
                          => \A f \in Settable :
                                (Sets(task[u], f) /\ old[f] = Unwrap(task[u][f]))
                                    => new[f] = Unwrap(task[u][f])
          /\ Rereads(t) =>
                IF IsSome(Get(db, task[t].id))
                THEN /\ task'[t].pc = "stat"
                     /\ task'[t].out = Get(db, task[t].id)
                     /\ Unwrap(task'[t].out).id = task[t].id
                ELSE task'[t].pc = "done" /\ task'[t].ret = "OkNone"
          /\ (task[t].op = "update" /\ task[t].pc = "stat") =>
                (task'[t].ret = "OkSome" => task'[t].out = task[t].out)
          /\ (task'[t].op = "update" /\ task'[t].ret = "OkSome") =>
                (task[t].op = "update" /\ task[t].pc \in {"stat", "done"})
      ]_vars

\* Two callers have updated the record of id 1 side by side, one its name and
\* one its age: each wrote before the other read back, both returned the
\* record with both changes, and that is the record stored.
C23_Witness ==
    /\ task[1].op = "update" /\ task[1].ret = "OkSome" /\ task[1].id = 1
    /\ task[2].op = "update" /\ task[2].ret = "OkSome" /\ task[2].id = 1
    /\ task[1].out = task[2].out
    /\ task[1].out = Get(db, 1)
    /\ Unwrap(Get(db, 1)).name = <<"B">>
    /\ Unwrap(Get(db, 1)).age = 2

\* The four counters of an aggregate, added up.
CounterSum(s) == s.create_count + s.read_count + s.update_count + s.delete_count

\* C24: in every state, on the server and on the worker, total_operations is
\* the sum of create_count, read_count, update_count and delete_count.
C24_TotalIsSum ==
    /\ stats.total_operations = CounterSum(stats)
    /\ wstats.total_operations = CounterSum(wstats)

\* The worker has counted two creates of an import and the server one
\* create, one update and one delete.
C24_Witness ==
    /\ wstats.create_count = 2
    /\ stats.create_count = 1 /\ stats.update_count = 1 /\ stats.delete_count = 1
    /\ stats.total_operations = 3

\* What the server process holds and its handlers answer from, and what the
\* worker process holds and its tasks work on.
ServerSide == <<db, stats, nextId, listed, pager>>

WorkerSide == <<wdb, wstats>>

\* C25: the worker and the server each have their own store and statistics:
\* a step of a worker task leaves the server's store, statistics and listings
\* as they are, and a step of a server handler leaves the worker's store,
\* statistics and files; an import decides on the records of the worker's
\* store alone whether an email is taken, and an export writes the records of
\* the worker's store alone, whatever the server's store holds.
C25_StoresPerProcess ==
    [][ /\ (jobs' # jobs \/ loop' # loop) => UNCHANGED ServerSide /\ task' = task
        /\ WorkerSide' # WorkerSide => UNCHANGED ServerSide /\ task' = task
        /\ (task' # task \/ ServerSide' # ServerSide) =>
              UNCHANGED WorkerSide /\ files' = files /\ jobs' = jobs /\ loop' = loop
        /\ \A j \in Jobs :
              /\ (jobs[j].pc = "check" /\ jobs'[j] # jobs[j]) =>
                    (jobs'[j].pc = "insert"
                        <=> EmailCount(wdb, jobs[j].requests[jobs[j].i].email) = 0)
              /\ (jobs[j].op = "ExportCsv" /\ jobs[j].pc = "spawned" /\ jobs'[j] # jobs[j]) =>
                    LET buf == jobs'[j].buffer
                    IN  /\ Len(buf) = IF wdb = <<>> THEN 0 ELSE Len(wdb) + 1
                        /\ \A k \in 1..Len(wdb) :
                              \E r \in 2..Len(buf) : buf[r][3] = wdb[k].email
      ]_vars

\* The server's store holds a record of email a@ with id 1 and its
\* statistics one create; the worker has imported the same email into its
\* own store, which was empty, and then exported it: the worker's one record
\* and its one create are its own.
C25_Witness ==
    /\ Len(db) = 1 /\ db[1].email = <<"a", "@">> /\ db[1].name = <<"B">>
    /\ stats.create_count = 1
    /\ Len(jobs) = 2
    /\ jobs[1].op = "ImportCsv" /\ jobs[1].results = <<"Ok">> /\ jobs[1].at_call = <<>>
    /\ jobs[2].op = "ExportCsv" /\ jobs[2].pc = "done" /\ jobs[2].res = "Ok"
    /\ Len(wdb) = 1 /\ wdb[1].email = <<"a", "@">> /\ wdb[1].name = <<"A", "L">>
    /\ wstats.create_count = 1
    /\ files["data.csv"] = Some(Encode(wdb))

====
